---- MODULE Spec2Model ----
(***************************************************************************)
(* Model of questions.py: a two-stage TF-IDF question answering pipeline.  *)
(*                                                                         *)
(* Representation.                                                         *)
(*  - A raw text is a sequence of sentences, a sentence a non-empty        *)
(*    sequence of raw words.  word_tokenize of a text yields its raw words *)
(*    in order; sent_tokenize/split("\n") yields its sentences.            *)
(*  - A Python dict with insertion order is a sequence of records          *)
(*    [key, words]; an IDF table is a function from words to values.       *)
(*  - math.log(p / q) is kept exact as the record [num |-> p, den |-> q]   *)
(*    (a "log value").  Sums of logs are products of the fractions and     *)
(*    comparisons are cross-multiplications, so ordering and ties are the  *)
(*    ones of real arithmetic.                                             *)
(*  - A function that may raise returns [err |-> "none" | <exception>,     *)
(*    val |-> result].                                                     *)
(***************************************************************************)
EXTENDS Integers, Sequences, FiniteSets, TLC

\* ---------------------------------------------------------------- bounds
\* main(): files in the corpus directory, sentences per file
MaxFiles == 2
MaxSents == 1
\* direct calls: units in a mapping, tokens in a mapping, the count n
MaxUnits == 2
MaxTokens == 4
MaxN == 2

\* ------------------------------------------------------ program constants
FILE_MATCHES == 1
SENTENCE_MATCHES == 1

\* ------------------------------------------------------------- vocabulary
\* Raw sentences of the corpus and of the prompt: capitals, a stopword and
\* a numeral are what tokenize has to deal with.
RawSentences ==
  {<<"The", "Cat">>, <<"Cat", "dog", "42">>, <<"the">>}
\* Tokens of the mappings handed directly to the functions.
Words == {"cat", "dog", "fish"}

SeqsUpTo(S, k) == UNION {[1..m -> S] : m \in 0..k}
Range(s) == {s[i] : i \in 1..Len(s)}
Min(a, b) == IF a <= b THEN a ELSE b
EmptyDict == [w \in {} |-> 0]
\* s[:k]
Take(s, k) == SubSeq(s, 1, Min(k, Len(s)))

RawDocs == SeqsUpTo(RawSentences, MaxSents)
RawQueries == {<<>>} \cup {<<s>> : s \in RawSentences}

\* Mappings of exactly u units holding at most t tokens in all.
RECURSIVE UnitWords(_, _)
UnitWords(u, t) ==
  IF u = 0 THEN {<<>>}
  ELSE UNION {{<<s>> \o r : s \in [1..l -> Words], r \in UnitWords(u - 1, t - l)} :
                l \in 0..t}

Mappings ==
  UNION {{[i \in 1..u |-> [key |-> i, words |-> ws[i]]] : ws \in UnitWords(u, MaxTokens)} :
           u \in 0..MaxUnits}

\* ---------------------------------------------------- exact log arithmetic
LogZero == [num |-> 1, den |-> 1]
LogAdd(a, b) == [num |-> a.num * b.num, den |-> a.den * b.den]
LogScale(k, a) == [num |-> a.num ^ k, den |-> a.den ^ k]
LogLess(a, b) == a.num * b.den < b.num * a.den
LogEq(a, b) == a.num * b.den = b.num * a.den

\* density c / l as the record [cnt |-> c, len |-> l]
FracLess(a, b) == a.cnt * b.len < b.cnt * a.len
FracEq(a, b) == a.cnt * b.len = b.cnt * a.len

\* ------------------------------------------------------------- tokenize
lower(w) == IF w = "Cat" THEN "cat" ELSE IF w = "The" THEN "the" ELSE w
isalpha(w) == w # "42"
stopwords == {"the"}

RECURSIVE Flatten(_)
Flatten(text) ==
  IF text = <<>> THEN <<>> ELSE Head(text) \o Flatten(Tail(text))

word_tokenize(text) == Flatten(text)

RECURSIVE KeepWords(_)
KeepWords(ws) ==
  IF ws = <<>> THEN <<>>
  ELSE IF isalpha(Head(ws)) /\ Head(ws) \notin stopwords
       THEN <<Head(ws)>> \o KeepWords(Tail(ws))
       ELSE KeepWords(Tail(ws))

tokenize(document) ==
  LET raw == word_tokenize(document)
  IN KeepWords([i \in 1..Len(raw) |-> lower(raw[i])])

\* --------------------------------------------------------- compute_idfs
RECURSIVE CountUnits(_, _)
CountUnits(word, docs) ==
  IF docs = <<>> THEN 0
  ELSE (IF word \in Range(Head(docs).words) THEN 1 ELSE 0)
       + CountUnits(word, Tail(docs))

\* Variant: d counted by frequency (document.count) instead of containment.
RECURSIVE CountOccurrences(_, _)
CountOccurrences(word, docs) ==
  IF docs = <<>> THEN 0
  ELSE Cardinality({j \in 1..Len(Head(docs).words) : Head(docs).words[j] = word})
       + CountOccurrences(word, Tail(docs))

compute_word_idf_by_frequency(word, documents) ==
  LET total_documents == Len(documents)
      num_documents_with_word == CountOccurrences(word, documents)
  IN IF num_documents_with_word = 0
     THEN [err |-> "ZeroDivisionError", val |-> LogZero]
     ELSE [err |-> "none",
           val |-> [num |-> total_documents, den |-> num_documents_with_word]]

compute_word_idf(word, documents) ==
  LET total_documents == Len(documents)
      num_documents_with_word == CountUnits(word, documents)
  IN IF num_documents_with_word = 0
     THEN [err |-> "ZeroDivisionError", val |-> LogZero]
     ELSE [err |-> "none",
           val |-> [num |-> total_documents, den |-> num_documents_with_word]]

RECURSIVE idfs_words(_, _, _)
idfs_words(acc, text, documents) ==
  IF text = <<>> \/ acc.err # "none" THEN acc
  ELSE LET word == Head(text)
       IN IF word \in DOMAIN acc.val
          THEN idfs_words(acc, Tail(text), documents)
          ELSE LET r == compute_word_idf(word, documents)
               IN IF r.err # "none"
                  THEN [err |-> r.err, val |-> EmptyDict]
                  ELSE idfs_words([err |-> "none",
                                   val |-> acc.val @@ (word :> r.val)],
                                  Tail(text), documents)

RECURSIVE idfs_docs(_, _, _)
idfs_docs(acc, rest, documents) ==
  IF rest = <<>> \/ acc.err # "none" THEN acc
  ELSE idfs_docs(idfs_words(acc, Head(rest).words, documents),
                 Tail(rest), documents)

\* Variant: the words of the first unit only.
compute_idfs_first_unit(documents) ==
  idfs_docs([err |-> "none", val |-> EmptyDict], Take(documents, 1), documents)

\* Variant: N / d evaluated before the loops, so that N = 0 raises.
compute_idfs_strict(documents) ==
  IF documents = <<>> THEN [err |-> "ZeroDivisionError", val |-> EmptyDict]
  ELSE idfs_docs([err |-> "none", val |-> EmptyDict], documents, documents)

compute_idfs(documents) ==
  idfs_docs([err |-> "none", val |-> EmptyDict], documents, documents)

\* ------------------------------------------------- sorted(reverse=True)
\* Stable descending sort of items, lt[i][j] telling whether the key of
\* items[i] is less than the key of items[j]: an item goes after every
\* strictly greater item and after the earlier items of equal key.
sorted_reverse(items, lt) ==
  LET m == Len(items)
      pos(i) == 1 + Cardinality({j \in 1..m : lt[i][j]})
                  + Cardinality({j \in 1..(i - 1) : ~lt[i][j] /\ ~lt[j][i]})
  IN SubSeq([p \in 1..m |-> items[CHOOSE i \in 1..m : pos(i) = p]], 1, m)

\* ------------------------------------------------------------ top_files
RECURSIVE count(_, _)
count(document, word) ==
  IF document = <<>> THEN 0
  ELSE (IF Head(document) = word THEN 1 ELSE 0) + count(Tail(document), word)

query_tf(query, document) == [word \in query |-> count(document, word)]

RECURSIVE sum_tfidf(_, _, _)
sum_tfidf(ws, word_tf, idfs) ==
  IF ws = {} THEN LogZero
  ELSE LET word == CHOOSE w \in ws : TRUE
       IN LogAdd(LogScale(word_tf[word], idfs[word]),
                 sum_tfidf(ws \ {word}, word_tf, idfs))

\* Lines 115-126, the loops over the files from the i-th on: the items of
\* file_tfidf in insertion order.
RECURSIVE file_tfidf(_, _, _, _)
file_tfidf(i, query, files, idfs) ==
  IF i > Len(files) THEN <<>>
  ELSE <<[key |-> files[i].key,
          tfidf |-> sum_tfidf(query, query_tf(query, files[i].words), idfs)]>>
       \o file_tfidf(i + 1, query, files, idfs)

\* key=lambda x: x[1]
tfidf_less(a, b) == LogLess(a.tfidf, b.tfidf)

Keys(items) == [i \in 1..Len(items) |-> items[i].key]

\* Variant: sorted without reverse=True.
top_files_ascending(query, files, idfs, n) ==
  IF files # <<>> /\ ~(query \subseteq DOMAIN idfs)
  THEN [err |-> "KeyError", val |-> <<>>]
  ELSE LET items == file_tfidf(1, query, files, idfs)
           sorted_file_tfidf ==
             sorted_reverse(items,
                            [i \in 1..Len(items) |-> [j \in 1..Len(items) |->
                               tfidf_less(items[j], items[i])]])
       IN [err |-> "none", val |-> Take(Keys(sorted_file_tfidf), n)]

top_files(query, files, idfs, n) ==
  IF files # <<>> /\ ~(query \subseteq DOMAIN idfs)
  THEN [err |-> "KeyError", val |-> <<>>]
  ELSE LET items == file_tfidf(1, query, files, idfs)
           sorted_file_tfidf ==
             sorted_reverse(items,
                            [i \in 1..Len(items) |-> [j \in 1..Len(items) |->
                               tfidf_less(items[i], items[j])]])
       IN [err |-> "none", val |-> Take(Keys(sorted_file_tfidf), n)]

\* -------------------------------------------------- query_term_density
RECURSIVE IndexOfKey(_, _)
IndexOfKey(dict, k) ==
  IF dict = <<>> THEN 0
  ELSE IF Head(dict).key = k THEN 1
  ELSE LET r == IndexOfKey(Tail(dict), k) IN IF r = 0 THEN 0 ELSE r + 1

\* dict[k] for a key the dict holds
Get(dict, k) == dict[IndexOfKey(dict, k)].words

RECURSIVE CountIn(_, _)
CountIn(ws, query) ==
  IF ws = <<>> THEN 0
  ELSE (IF Head(ws) \in query THEN 1 ELSE 0) + CountIn(Tail(ws), query)

\* Variant: the query words found in the sentence, without repetition.
query_term_density_distinct(query, sentences, sentence) ==
  LET words_in_sentence == Len(Get(sentences, sentence))
      words_in_query == Cardinality(query \cap Range(Get(sentences, sentence)))
  IN IF words_in_sentence = 0
     THEN [err |-> "ZeroDivisionError", val |-> [cnt |-> 0, len |-> 1]]
     ELSE [err |-> "none",
           val |-> [cnt |-> words_in_query, len |-> words_in_sentence]]

query_term_density(query, sentences, sentence) ==
  LET words_in_sentence == Len(Get(sentences, sentence))
      words_in_query == CountIn(Get(sentences, sentence), query)
  IN IF words_in_sentence = 0
     THEN [err |-> "ZeroDivisionError", val |-> [cnt |-> 0, len |-> 1]]
     ELSE [err |-> "none",
           val |-> [cnt |-> words_in_query, len |-> words_in_sentence]]

\* -------------------------------------------------------- top_sentences
\* Lines 142-147, the loop over the query words for one sentence.  acc is
\* [err, has, idf, qtd]: has = the sentence is in sentences_mwm, idf and qtd
\* its two list elements.
RECURSIVE mwm_words(_, _, _, _, _, _)
mwm_words(acc, ws, query, sentences, sentence, idfs) ==
  IF ws = {} \/ acc.err # "none" THEN acc
  ELSE LET word == CHOOSE w \in ws : TRUE
           rest == ws \ {word}
       IN IF word \notin Range(Get(sentences, sentence))
          THEN mwm_words(acc, rest, query, sentences, sentence, idfs)
          ELSE IF word \notin DOMAIN idfs
          THEN [acc EXCEPT !.err = "KeyError"]
          ELSE IF acc.has
          THEN mwm_words([acc EXCEPT !.idf = LogAdd(acc.idf, idfs[word])],
                         rest, query, sentences, sentence, idfs)
          ELSE LET d == query_term_density(query, sentences, sentence)
               IN IF d.err # "none"
                  THEN [acc EXCEPT !.err = d.err]
                  ELSE mwm_words([err |-> "none", has |-> TRUE,
                                  idf |-> idfs[word], qtd |-> d.val],
                                 rest, query, sentences, sentence, idfs)

\* Variant: every sentence enters sentences_mwm with score 0 before the loop.
mwm_entry_all(query, sentences, sentence, idfs) ==
  LET d == query_term_density(query, sentences, sentence)
  IN IF d.err # "none"
     THEN [err |-> d.err, has |-> FALSE, idf |-> LogZero, qtd |-> d.val]
     ELSE mwm_words([err |-> "none", has |-> TRUE, idf |-> LogZero,
                     qtd |-> d.val],
                    query, query, sentences, sentence, idfs)

\* Variant: the density is computed before the sentence is known to match.
mwm_entry_eager(query, sentences, sentence, idfs) ==
  LET d == query_term_density(query, sentences, sentence)
  IN IF d.err # "none"
     THEN [err |-> d.err, has |-> FALSE, idf |-> LogZero, qtd |-> d.val]
     ELSE mwm_words([err |-> "none", has |-> FALSE, idf |-> LogZero,
                     qtd |-> d.val],
                    query, query, sentences, sentence, idfs)

mwm_entry(query, sentences, sentence, idfs) ==
  mwm_words([err |-> "none", has |-> FALSE, idf |-> LogZero,
             qtd |-> [cnt |-> 0, len |-> 1]],
            query, query, sentences, sentence, idfs)

\* Line 141, the loop over the sentences from the i-th on.
RECURSIVE sentences_mwm(_, _, _, _)
sentences_mwm(i, query, sentences, idfs) ==
  IF i > Len(sentences) THEN [err |-> "none", val |-> <<>>]
  ELSE LET e == mwm_entry(query, sentences, sentences[i].key, idfs)
       IN IF e.err # "none" THEN [err |-> e.err, val |-> <<>>]
          ELSE LET r == sentences_mwm(i + 1, query, sentences, idfs)
               IN IF r.err # "none" THEN r
                  ELSE IF e.has
                  THEN [err |-> "none",
                        val |-> <<[key |-> sentences[i].key,
                                   idf |-> e.idf, qtd |-> e.qtd]>> \o r.val]
                  ELSE r

\* Variant: key=lambda x: (x[1][1], x[1][0]).
mwm_less_density_first(a, b) ==
  \/ FracLess(a.qtd, b.qtd)
  \/ FracEq(a.qtd, b.qtd) /\ LogLess(a.idf, b.idf)

\* key=lambda x: (x[1][0], x[1][1])
mwm_less(a, b) ==
  \/ LogLess(a.idf, b.idf)
  \/ LogEq(a.idf, b.idf) /\ FracLess(a.qtd, b.qtd)

top_sentences(query, sentences, idfs, n) ==
  LET mwm == sentences_mwm(1, query, sentences, idfs)
  IN IF mwm.err # "none" THEN [err |-> mwm.err, val |-> <<>>]
     ELSE LET items == mwm.val
              sorted_sentences ==
                sorted_reverse(items,
                               [i \in 1..Len(items) |-> [j \in 1..Len(items) |->
                                  mwm_less(items[i], items[j])]])
          IN [err |-> "none",
              val |-> Take(Keys(sorted_sentences), n)]

\* ------------------------------------------- main: sentence extraction
DictPut(dict, k, v) ==
  LET i == IndexOfKey(dict, k)
  IN IF i = 0 THEN Append(dict, [key |-> k, words |-> v])
     ELSE [dict EXCEPT ![i] = [key |-> k, words |-> v]]

\* Lines 34-38 for one file: its sentences in order.
RECURSIVE add_sentences(_, _)
add_sentences(dict, sents) ==
  IF sents = <<>> THEN dict
  ELSE LET sentence == Head(sents)
           tokens == tokenize(<<sentence>>)
       IN add_sentences(IF tokens # <<>> THEN DictPut(dict, sentence, tokens)
                        ELSE dict,
                        Tail(sents))

RECURSIVE extract_from(_, _, _)
extract_from(dict, names, files) ==
  IF names = <<>> THEN dict
  ELSE extract_from(add_sentences(dict, files[Head(names)]), Tail(names), files)

\* Variant: without the test "if tokens".
RECURSIVE add_all_sentences(_, _)
add_all_sentences(dict, sents) ==
  IF sents = <<>> THEN dict
  ELSE add_all_sentences(DictPut(dict, Head(sents), tokenize(<<Head(sents)>>)),
                         Tail(sents))

RECURSIVE extract_all_from(_, _, _)
extract_all_from(dict, names, files) ==
  IF names = <<>> THEN dict
  ELSE extract_all_from(add_all_sentences(dict, files[Head(names)]),
                        Tail(names), files)

extract_sentences_unfiltered(filenames, files) ==
  extract_all_from(<<>>, filenames, files)

extract_sentences(filenames, files) == extract_from(<<>>, filenames, files)

\* Lines 17-21: load_files and the tokenizing comprehension.
load_file_words(files) ==
  [i \in 1..Len(files) |-> [key |-> i, words |-> tokenize(files[i])]]

\* ================================================================ state
VARIABLES
  pc,          \* position in main, or the function last called directly
  err,         \* "none" or the exception raised
  files,       \* main: filename (its index) -> raw text
  rawQuery,    \* main: the text typed at the prompt
  file_words,  \* main: filename -> tokens
  file_idfs,   \* main: document-level IDF table
  query,       \* set of query tokens
  n,           \* n of the last ranking call, 0 before it
  filenames,   \* result of top_files
  sentences,   \* sentence -> tokens (direct calls: the unit mapping)
  idfs,        \* IDF table over sentences
  matches,     \* result of top_sentences
  density      \* direct call of query_term_density: its argument and result

vars == <<pc, err, files, rawQuery, file_words, file_idfs, query, n,
          filenames, sentences, idfs, matches, density>>

NoDensity == [key |-> 0, err |-> "none", val |-> [cnt |-> 0, len |-> 1]]

\* ------------------------------------------------------------ main()
Init ==
  /\ files \in SeqsUpTo(RawDocs, MaxFiles)
  /\ rawQuery \in RawQueries
  /\ pc = "load_files"
  /\ err = "none"
  /\ file_words = <<>>
  /\ file_idfs = EmptyDict
  /\ query = {}
  /\ n = 0
  /\ filenames = <<>>
  /\ sentences = <<>>
  /\ idfs = EmptyDict
  /\ matches = <<>>
  /\ density = NoDensity

\* lines 17-21
LoadFiles ==
  /\ pc = "load_files"
  /\ file_words' = load_file_words(files)
  /\ pc' = "file_idfs"
  /\ UNCHANGED <<err, files, rawQuery, file_idfs, query, n, filenames,
                 sentences, idfs, matches, density>>

\* line 23
ComputeFileIdfs ==
  /\ pc = "file_idfs"
  /\ LET r == compute_idfs(file_words)
     IN /\ err' = r.err
        /\ file_idfs' = r.val
        /\ pc' = IF r.err = "none" THEN "query" ELSE "error"
  /\ UNCHANGED <<files, rawQuery, file_words, query, n, filenames,
                 sentences, idfs, matches, density>>

\* line 26
ReadQuery ==
  /\ pc = "query"
  /\ query' = Range(tokenize(rawQuery))
  /\ pc' = "top_files"
  /\ UNCHANGED <<err, files, rawQuery, file_words, file_idfs, n, filenames,
                 sentences, idfs, matches, density>>

\* line 29
TopFiles ==
  /\ pc = "top_files"
  /\ LET r == top_files(query, file_words, file_idfs, FILE_MATCHES)
     IN /\ err' = r.err
        /\ filenames' = r.val
        /\ pc' = IF r.err = "none" THEN "sentences" ELSE "error"
  /\ n' = FILE_MATCHES
  /\ UNCHANGED <<files, rawQuery, file_words, file_idfs, query,
                 sentences, idfs, matches, density>>

\* lines 32-38
ExtractSentences ==
  /\ pc = "sentences"
  /\ sentences' = extract_sentences(filenames, files)
  /\ pc' = "idfs"
  /\ UNCHANGED <<err, files, rawQuery, file_words, file_idfs, query, n,
                 filenames, idfs, matches, density>>

\* line 41
ComputeSentenceIdfs ==
  /\ pc = "idfs"
  /\ LET r == compute_idfs(sentences)
     IN /\ err' = r.err
        /\ idfs' = r.val
        /\ pc' = IF r.err = "none" THEN "top_sentences" ELSE "error"
  /\ UNCHANGED <<files, rawQuery, file_words, file_idfs, query, n,
                 filenames, sentences, matches, density>>

\* lines 44-46
TopSentences ==
  /\ pc = "top_sentences"
  /\ LET r == top_sentences(query, sentences, idfs, SENTENCE_MATCHES)
     IN /\ err' = r.err
        /\ matches' = r.val
        /\ pc' = IF r.err = "none" THEN "done" ELSE "error"
  /\ n' = SENTENCE_MATCHES
  /\ UNCHANGED <<files, rawQuery, file_words, file_idfs, query,
                 filenames, sentences, idfs, density>>

Next ==
  \/ LoadFiles
  \/ ComputeFileIdfs
  \/ ReadQuery
  \/ TopFiles
  \/ ExtractSentences
  \/ ComputeSentenceIdfs
  \/ TopSentences

Spec == Init /\ [][Next]_vars

\* ------------------------------------- the functions called directly
\* The unit mapping is held in sentences, its IDF table in idfs.
FnInit ==
  /\ sentences \in Mappings
  /\ query \in SUBSET Words
  /\ pc = "fn_start"
  /\ err = "none"
  /\ files = <<>>
  /\ rawQuery = <<>>
  /\ file_words = <<>>
  /\ file_idfs = EmptyDict
  /\ n = 0
  /\ filenames = <<>>
  /\ idfs = EmptyDict
  /\ matches = <<>>
  /\ density = NoDensity

FnComputeIdfs ==
  /\ pc = "fn_start"
  /\ LET r == compute_idfs(sentences)
     IN /\ err' = r.err
        /\ idfs' = r.val
  /\ pc' = "fn_idfs"
  /\ UNCHANGED <<files, rawQuery, file_words, file_idfs, query, n,
                 filenames, sentences, matches, density>>

FnTopFiles ==
  /\ pc = "fn_idfs"
  /\ \E k \in 1..MaxN :
       LET r == top_files(query, sentences, idfs, k)
       IN /\ err' = r.err
          /\ filenames' = r.val
          /\ n' = k
  /\ pc' = "fn_files"
  /\ UNCHANGED <<files, rawQuery, file_words, file_idfs, query,
                 sentences, idfs, matches, density>>

FnTopSentences ==
  /\ pc = "fn_idfs"
  /\ \E k \in 1..MaxN :
       LET r == top_sentences(query, sentences, idfs, k)
       IN /\ err' = r.err
          /\ matches' = r.val
          /\ n' = k
  /\ pc' = "fn_sentences"
  /\ UNCHANGED <<files, rawQuery, file_words, file_idfs, query,
                 filenames, sentences, idfs, density>>

FnDensity ==
  /\ pc = "fn_idfs"
  /\ \E i \in 1..Len(sentences) :
       LET r == query_term_density(query, sentences, sentences[i].key)
       IN /\ err' = r.err
          /\ density' = [key |-> sentences[i].key, err |-> r.err, val |-> r.val]
  /\ pc' = "fn_density"
  /\ UNCHANGED <<files, rawQuery, file_words, file_idfs, query, n,
                 filenames, sentences, idfs, matches>>

FnNext ==
  \/ FnComputeIdfs
  \/ FnTopFiles
  \/ FnTopSentences
  \/ FnDensity

FnSpec == FnInit /\ [][FnNext]_vars

\* ============================================================ properties
\* Independent statements of what the functions are to compute.
Tokens(docs) == UNION {Range(docs[i].words) : i \in 1..Len(docs)}

UnitsContaining(w, docs) ==
  {i \in 1..Len(docs) : \E j \in 1..Len(docs[i].words) : docs[i].words[j] = w}

Positions(ws, q) == {j \in 1..Len(ws) : ws[j] \in q}

\* sum over the positions of ws holding a query token of that token's IDF
RECURSIVE TfIdfScore(_, _, _)
TfIdfScore(ws, q, table) ==
  IF ws = <<>> THEN LogZero
  ELSE LogAdd(IF Head(ws) \in q THEN table[Head(ws)] ELSE LogZero,
              TfIdfScore(Tail(ws), q, table))

\* sum of the IDF of the tokens of S
RECURSIVE SumIdf(_, _)
SumIdf(S, table) ==
  IF S = {} THEN LogZero
  ELSE LET w == CHOOSE x \in S : TRUE
       IN LogAdd(table[w], SumIdf(S \ {w}, table))

Distinct(s) == \A i, j \in 1..Len(s) : i # j => s[i] # s[j]

IdfsDone == pc \in {"fn_idfs", "fn_files", "fn_sentences", "fn_density"}
UnitKeys == {sentences[i].key : i \in 1..Len(sentences)}
FileScore(k) == TfIdfScore(Get(sentences, k), query, idfs)
Primary(k) == SumIdf(query \cap Range(Get(sentences, k)), idfs)
Density(k) ==
  [cnt |-> Cardinality(Positions(Get(sentences, k), query)),
   len |-> Len(Get(sentences, k))]
Matching == {k \in UnitKeys : query \cap Range(Get(sentences, k)) # {}}

\* C1: for a non-empty mapping and an IDF table with an entry for every
\* query token, top_files returns exactly min(n, number of documents)
\* distinct document names in non-increasing order of TF-IDF score, and no
\* document left out scores strictly more than a document returned.
C1_TopFilesRanking ==
  (pc = "fn_files" /\ sentences # <<>> /\ query \subseteq DOMAIN idfs) =>
    /\ err = "none"
    /\ Len(filenames) = Min(n, Len(sentences))
    /\ Range(filenames) \subseteq UnitKeys
    /\ Distinct(filenames)
    /\ \A i, j \in 1..Len(filenames) :
         i < j => ~LogLess(FileScore(filenames[i]), FileScore(filenames[j]))
    /\ \A k \in UnitKeys \ Range(filenames) : \A i \in 1..Len(filenames) :
         ~LogLess(FileScore(filenames[i]), FileScore(k))

\* A call with n below the number of documents in which the sort moved a
\* later document to the front and a strictly lower one is left out.
C1_Witness ==
  /\ pc = "fn_files" /\ err = "none" /\ query # {}
  /\ query \subseteq DOMAIN idfs
  /\ n < Len(sentences)
  /\ Len(filenames) = 1 /\ filenames[1] # sentences[1].key
  /\ \E k \in UnitKeys \ Range(filenames) :
       LogLess(FileScore(k), FileScore(filenames[1]))

\* C2: with a query token that has no entry in the document-level IDF
\* table, top_files in main counts the token as zero and returns its
\* ranking; no missing-key lookup failure ends the run.
C2_UnknownTokenIsZero ==
  (n # 0 /\ ~(query \subseteq DOMAIN file_idfs)) =>
    /\ err = "none"
    /\ pc # "error"
    /\ Len(filenames) = Min(FILE_MATCHES, Len(file_words))

\* C3 as stated: compute_idfs over zero units ends in an error that aborts
\* the query cycle.
C3_EmptyUnitsAbort ==
  (file_words = <<>> /\ pc \notin {"load_files", "file_idfs"}) =>
    (pc = "error" /\ err # "none")

\* C3 as amended: compute_idfs over zero units raises nothing and returns
\* the empty table, and the cycle goes on to ranking, where an empty corpus
\* yields empty results.
C3_EmptyUnitsEmptyTable ==
  /\ (file_words = <<>> /\ pc \notin {"load_files", "file_idfs"}) =>
       (err = "none" /\ pc # "error" /\ file_idfs = EmptyDict)
  /\ (sentences = <<>> /\ pc \in {"top_sentences", "done"}) =>
       (err = "none" /\ idfs = EmptyDict)
  /\ (file_words = <<>> /\ pc = "done") =>
       (filenames = <<>> /\ matches = <<>>)

\* An empty corpus and a query with tokens, run to the end.
C3_Witness ==
  pc = "done" /\ files = <<>> /\ query # {} /\ file_idfs = EmptyDict

\* C4: the keys of the table compute_idfs returns are exactly the tokens
\* that occur in at least one unit.
C4_IdfKeys ==
  /\ pc = "fn_idfs" => err = "none"
  /\ IdfsDone => DOMAIN idfs = Tokens(sentences)

\* Two units, the second one holding a token the first lacks, and a token
\* of the vocabulary in no unit.
C4_Witness ==
  /\ pc = "fn_idfs"
  /\ Len(sentences) = 2
  /\ Range(sentences[2].words) \ Range(sentences[1].words) # {}
  /\ Range(sentences[1].words) # {}
  /\ Tokens(sentences) # Words

\* C5: IDF(t) = ln(N / d) with d the number of units containing t, however
\* often; so 1 <= d <= N, the value is 0 for d = N, ln N for d = 1 < N, and
\* a token in fewer units never has the smaller IDF.
C5_IdfValue ==
  IdfsDone =>
    \A t \in DOMAIN idfs :
      LET N == Len(sentences)
          d == Cardinality(UnitsContaining(t, sentences))
      IN /\ N >= 1
         /\ idfs[t] = [num |-> N, den |-> d]
         /\ 1 <= d /\ d <= N
         /\ d = N => LogEq(idfs[t], LogZero)
         /\ (d = 1 /\ N > 1) => LogEq(idfs[t], [num |-> N, den |-> 1])
         /\ \A u \in DOMAIN idfs :
              d <= Cardinality(UnitsContaining(u, sentences))
                => ~LogLess(idfs[t], idfs[u])

\* A token twice in its only unit next to a token found in every unit.
C5_Witness ==
  /\ pc = "fn_idfs"
  /\ Len(sentences) > 1
  /\ \E t, u \in DOMAIN idfs :
       /\ Cardinality(UnitsContaining(t, sentences)) = 1
       /\ \E i \in 1..Len(sentences) :
            Cardinality(Positions(sentences[i].words, {t})) > 1
       /\ Cardinality(UnitsContaining(u, sentences)) = Len(sentences)
       /\ LogLess(idfs[u], idfs[t])

\* C6: the result of top_sentences is in descending lexicographic order of
\* (sum of the IDF of the distinct query tokens the sentence contains,
\* query term density): never a smaller sum before a larger one, and of
\* two equal sums never the lower density first.
C6_SentenceOrder ==
  (pc = "fn_sentences" /\ err = "none") =>
    \A i, j \in 1..Len(matches) :
      i < j =>
        /\ ~LogLess(Primary(matches[i]), Primary(matches[j]))
        /\ LogEq(Primary(matches[i]), Primary(matches[j]))
             => ~FracLess(Density(matches[i]), Density(matches[j]))

\* The sentence inserted later comes first on its larger sum although its
\* density is the lower one.
C6_Witness ==
  /\ pc = "fn_sentences" /\ err = "none"
  /\ Len(matches) = 2
  /\ IndexOfKey(sentences, matches[2]) < IndexOfKey(sentences, matches[1])
  /\ LogLess(Primary(matches[2]), Primary(matches[1]))
  /\ FracLess(Density(matches[1]), Density(matches[2]))

\* C7: top_sentences returns only sentences containing a query token, and
\* exactly min(n, number of matching sentences) of them, without error.
C7_OnlyMatching ==
  pc = "fn_sentences" =>
    /\ err = "none"
    /\ Range(matches) \subseteq Matching
    /\ Distinct(matches)
    /\ Len(matches) = Min(n, Cardinality(Matching))

\* Fewer sentences match than were asked for, next to one that does not.
C7_Witness ==
  /\ pc = "fn_sentences"
  /\ Cardinality(Matching) = 1
  /\ n > 1
  /\ Len(sentences) > 1
  /\ Len(matches) = 1

\* C8 as stated: from a non-empty corpus neither invocation of
\* compute_idfs in main receives a mapping with zero units.
C8_NeverEmptyUnits ==
  files # <<>> =>
    /\ pc \notin {"load_files", "file_idfs"} => file_words # <<>>
    /\ pc \in {"top_sentences", "done"} => sentences # <<>>

\* C8 as amended: the document-level invocation never receives zero units;
\* the sentence-level one does exactly when every selected document has an
\* empty token sequence.
C8_EmptyUnitsOnlyFromEmptyDocs ==
  files # <<>> =>
    /\ pc \notin {"load_files", "file_idfs"} => file_words # <<>>
    /\ pc \in {"top_sentences", "done"} =>
         /\ filenames # <<>>
         /\ sentences = <<>> <=>
              \A k \in Range(filenames) : Get(file_words, k) = <<>>

\* The sentence-level IDF table was computed over zero units although the
\* corpus holds a file.
C8_Witness ==
  /\ pc = "top_sentences"
  /\ files # <<>>
  /\ sentences = <<>>
  /\ \E i \in 1..Len(files) : files[i] # <<>>

\* C9: for a non-empty token sequence query_term_density is the number of
\* its tokens, repetitions counted, that are in the query over its length:
\* within [0, 1], 0 when none is in the query, 1 when all are.
C9_Density ==
  pc = "fn_density" =>
    LET ws == Get(sentences, density.key)
    IN ws # <<>> =>
         /\ density.err = "none"
         /\ density.val.cnt = Cardinality(Positions(ws, query))
         /\ density.val.len = Len(ws)
         /\ 0 <= density.val.cnt /\ density.val.cnt <= density.val.len
         /\ Positions(ws, query) = {}
              => FracEq(density.val, [cnt |-> 0, len |-> 1])
         /\ Positions(ws, query) = 1..Len(ws)
              => FracEq(density.val, [cnt |-> 1, len |-> 1])

\* A query token twice in a sentence that also holds a token outside the
\* query.
C9_Witness ==
  /\ pc = "fn_density"
  /\ density.err = "none"
  /\ LET ws == Get(sentences, density.key)
     IN /\ Cardinality(Positions(ws, query)) > Cardinality(query \cap Range(ws))
        /\ Cardinality(Positions(ws, query)) < Len(ws)

\* C10: with the table compute_idfs returns for the same mapping,
\* top_sentences raises nothing: neither a missing key for a query token
\* that is in no sentence nor a division by zero for a sentence without
\* tokens.
C10_TopSentencesTotal ==
  pc = "fn_sentences" => err = "none"

\* A sentence without tokens and a query token in no sentence, next to a
\* sentence that matches.
C10_Witness ==
  /\ pc = "fn_sentences"
  /\ \E i \in 1..Len(sentences) : sentences[i].words = <<>>
  /\ ~(query \subseteq DOMAIN idfs)
  /\ matches # <<>>

====
